---- MODULE Spec2Model ----
(***************************************************************************)
(* Author resolution of codereport (src/src/author.rs).                    *)
(*                                                                         *)
(* Strings are TLA+ strings; a character is a string of length one.        *)
(* Option<T> is a sequence of length at most one: None is <<>> and         *)
(* Some(v) is <<v>>.                                                       *)
(***************************************************************************)
EXTENDS Integers, Sequences, FiniteSets, TLC

VARIABLES
    coFs,       \* SpecOwners: the two candidate CODEOWNERS files of repo_root
    coPath,     \* SpecOwners: the path argument of codeowner_for_path
    coOwner,    \* SpecOwners: <<"pending">> or <<"done", Option<owner>>>
    cacheFile,  \* the persisted .codereports/.blame-cache: Vec<BlameCacheEntry>
    last,       \* Spec: the record of the latest resolve_author call
    pc,         \* SpecRace: position of each process in resolve_author
    loc,        \* SpecRace: the locals of each process
    hist,       \* SpecRace: history of the persisted upserts
    cli,        \* the command line specifications: a command's inputs and state
    query       \* the function specifications: a function's arguments and result

vars == <<coFs, coPath, coOwner, cacheFile, last, pc, loc, hist, cli, query>>

\* ------------------------------------------------------------------------
\* Option<T>
\* ------------------------------------------------------------------------
None == <<>>
Some(v) == <<v>>
IsSome(o) == Len(o) = 1
IsNone(o) == Len(o) = 0
Unwrap(o) == o[1]

\* ------------------------------------------------------------------------
\* str methods used by author.rs
\* ------------------------------------------------------------------------
Char(s, i) == SubSeq(s, i, i)

IsWhitespace(c) == c \in {" ", "\t", "\r", "\n"}

StartsWith(s, p) == Len(p) <= Len(s) /\ SubSeq(s, 1, Len(p)) = p

EndsWith(s, p) == Len(p) <= Len(s) /\ SubSeq(s, Len(s) - Len(p) + 1, Len(s)) = p

Contains(s, p) == \E i \in 1..(Len(s) - Len(p) + 1) : SubSeq(s, i, i + Len(p) - 1) = p

RECURSIVE TrimStartMatches(_, _)
TrimStartMatches(s, c) ==
    IF Len(s) > 0 /\ Char(s, 1) = c
    THEN TrimStartMatches(SubSeq(s, 2, Len(s)), c)
    ELSE s

RECURSIVE TrimEndMatches(_, _)
TrimEndMatches(s, c) ==
    IF Len(s) > 0 /\ Char(s, Len(s)) = c
    THEN TrimEndMatches(SubSeq(s, 1, Len(s) - 1), c)
    ELSE s

RECURSIVE Replace(_, _, _)
Replace(s, from, to) ==
    IF Len(s) = 0 THEN ""
    ELSE (IF Char(s, 1) = from THEN to ELSE Char(s, 1))
         \o Replace(SubSeq(s, 2, Len(s)), from, to)

RECURSIVE TrimStart(_)
TrimStart(s) ==
    IF Len(s) > 0 /\ IsWhitespace(Char(s, 1))
    THEN TrimStart(SubSeq(s, 2, Len(s)))
    ELSE s

RECURSIVE TrimEnd(_)
TrimEnd(s) ==
    IF Len(s) > 0 /\ IsWhitespace(Char(s, Len(s)))
    THEN TrimEnd(SubSeq(s, 1, Len(s) - 1))
    ELSE s

Trim(s) == TrimEnd(TrimStart(s))

\* str::split_whitespace: the maximal runs of non-whitespace, in order.
\* cur is the run being read, acc the runs already closed.
RECURSIVE SplitWs(_, _, _)
SplitWs(s, cur, acc) ==
    IF Len(s) = 0
    THEN (IF cur = "" THEN acc ELSE Append(acc, cur))
    ELSE IF IsWhitespace(Char(s, 1))
         THEN SplitWs(SubSeq(s, 2, Len(s)), "",
                      IF cur = "" THEN acc ELSE Append(acc, cur))
         ELSE SplitWs(SubSeq(s, 2, Len(s)), cur \o Char(s, 1), acc)

SplitWhitespace(s) == SplitWs(s, "", <<>>)

\* str::lines: split at "\n", a "\r" right before the "\n" is dropped, and a
\* final empty piece (content ending in "\n", or empty content) is no line.
RECURSIVE SplitLines(_, _, _)
SplitLines(s, cur, acc) ==
    IF Len(s) = 0
    THEN (IF cur = "" THEN acc ELSE Append(acc, cur))
    ELSE IF Char(s, 1) = "\n"
         THEN SplitLines(SubSeq(s, 2, Len(s)), "",
                         Append(acc, IF EndsWith(cur, "\r")
                                     THEN SubSeq(cur, 1, Len(cur) - 1)
                                     ELSE cur))
         ELSE SplitLines(SubSeq(s, 2, Len(s)), cur \o Char(s, 1), acc)

Lines(s) == SplitLines(s, "", <<>>)

\* ------------------------------------------------------------------------
\* CODEOWNERS
\* ------------------------------------------------------------------------
\* codeowners_pattern_matches looking for the pattern anywhere in the path.
codeowners_pattern_matches_anywhere(pattern0, path0) ==
    LET pattern == TrimStartMatches(pattern0, "/")
        path    == TrimStartMatches(path0, "/")
    IN  IF pattern = "" THEN FALSE
        ELSE IF pattern = "*" \/ path = pattern THEN TRUE
        ELSE IF EndsWith(pattern, "/")
             THEN \/ StartsWith(path, pattern)
                  \/ StartsWith(path, TrimEndMatches(pattern, "/"))
        ELSE \/ StartsWith(path, pattern)
             \/ path = pattern
             \/ EndsWith(path, pattern)
             \/ Contains(path, pattern)

\* codeowners_pattern_matches trying the last rules for a directory pattern
\* too.
codeowners_pattern_matches_dir_falls_through(pattern0, path0) ==
    LET pattern == TrimStartMatches(pattern0, "/")
        path    == TrimStartMatches(path0, "/")
    IN  IF pattern = "" THEN FALSE
        ELSE IF pattern = "*" \/ path = pattern THEN TRUE
        ELSE \/ EndsWith(pattern, "/") /\ StartsWith(path, TrimEndMatches(pattern, "/"))
             \/ StartsWith(path, pattern)
             \/ path = pattern
             \/ EndsWith(path, pattern)
             \/ Contains(path, "/" \o pattern)

codeowners_pattern_matches(pattern0, path0) ==
    LET pattern == TrimStartMatches(pattern0, "/")
        path    == TrimStartMatches(path0, "/")
    IN  IF pattern = "" THEN FALSE
        ELSE IF pattern = "*" \/ path = pattern THEN TRUE
        ELSE IF EndsWith(pattern, "/")
             THEN \/ StartsWith(path, pattern)
                  \/ StartsWith(path, TrimEndMatches(pattern, "/"))
        ELSE \/ StartsWith(path, pattern)
             \/ path = pattern
             \/ EndsWith(path, pattern)
             \/ Contains(path, "/" \o pattern)

\* A file of the working tree as the calls of std::fs see it.
AbsentFile == [exists |-> FALSE, readable |-> FALSE, content |-> ""]
TextFile(c) == [exists |-> TRUE, readable |-> TRUE, content |-> c]
UnreadableFile == [exists |-> TRUE, readable |-> FALSE, content |-> ""]

\* read_codeowners going on to the root file when the .git one cannot be
\* read.
read_codeowners_falls_back(fs) ==
    IF fs.dotGit.exists /\ fs.dotGit.readable THEN Some(fs.dotGit.content)
    ELSE IF fs.root.exists
    THEN (IF fs.root.readable THEN Some(fs.root.content) ELSE None)
    ELSE None

\* fs.dotGit is <repo_root>/.git/CODEOWNERS, fs.root is <repo_root>/CODEOWNERS
read_codeowners(fs) ==
    IF fs.dotGit.exists
    THEN (IF fs.dotGit.readable THEN Some(fs.dotGit.content) ELSE None)
    ELSE IF fs.root.exists
    THEN (IF fs.root.readable THEN Some(fs.root.content) ELSE None)
    ELSE None

\* codeowner_loop keeping the first matching rule instead of the last.
RECURSIVE codeowner_loop_first_wins(_, _, _, _)
codeowner_loop_first_wins(lines, i, path_forward, last_match) ==
    IF i > Len(lines) THEN last_match
    ELSE LET line   == Trim(lines[i])
             tokens == SplitWhitespace(line)
         IN  IF line = "" \/ StartsWith(line, "#")
             THEN codeowner_loop_first_wins(lines, i + 1, path_forward, last_match)
             ELSE IF Len(tokens) = 0
             THEN None
             ELSE IF Len(tokens) = 1
             THEN codeowner_loop_first_wins(lines, i + 1, path_forward, last_match)
             ELSE IF codeowners_pattern_matches(tokens[1], path_forward) /\ IsNone(last_match)
             THEN codeowner_loop_first_wins(lines, i + 1, path_forward, Some(tokens[2]))
             ELSE codeowner_loop_first_wins(lines, i + 1, path_forward, last_match)

\* codeowner_loop recording the last owner token of a rule instead of owners[0].
RECURSIVE codeowner_loop_last_owner(_, _, _, _)
codeowner_loop_last_owner(lines, i, path_forward, last_match) ==
    IF i > Len(lines) THEN last_match
    ELSE LET line   == Trim(lines[i])
             tokens == SplitWhitespace(line)
         IN  IF line = "" \/ StartsWith(line, "#")
             THEN codeowner_loop_last_owner(lines, i + 1, path_forward, last_match)
             ELSE IF Len(tokens) = 0
             THEN None
             ELSE IF Len(tokens) = 1
             THEN codeowner_loop_last_owner(lines, i + 1, path_forward, last_match)
             ELSE IF codeowners_pattern_matches(tokens[1], path_forward)
             THEN codeowner_loop_last_owner(lines, i + 1, path_forward,
                                            Some(tokens[Len(tokens)]))
             ELSE codeowner_loop_last_owner(lines, i + 1, path_forward, last_match)

\* The body of the for loop of codeowner_for_path over lines[i..], with
\* last_match the value of the loop variable on entry.
RECURSIVE codeowner_loop(_, _, _, _)
codeowner_loop(lines, i, path_forward, last_match) ==
    IF i > Len(lines) THEN last_match
    ELSE LET line   == Trim(lines[i])
             tokens == SplitWhitespace(line)
         IN  IF line = "" \/ StartsWith(line, "#")
             THEN codeowner_loop(lines, i + 1, path_forward, last_match)
             ELSE IF Len(tokens) = 0
             THEN None                    \* tokens.next()? leaves the function
             ELSE IF Len(tokens) = 1      \* owners.is_empty()
             THEN codeowner_loop(lines, i + 1, path_forward, last_match)
             ELSE IF codeowners_pattern_matches(tokens[1], path_forward)
             THEN codeowner_loop(lines, i + 1, path_forward, Some(tokens[2]))
             ELSE codeowner_loop(lines, i + 1, path_forward, last_match)

codeowner_for_path(fs, path) ==
    LET path_forward == Replace(path, "\\", "/")
        content      == read_codeowners(fs)
    IN  IF IsNone(content) THEN None
        ELSE codeowner_loop(Lines(Unwrap(content)), 1, path_forward, None)

\* ------------------------------------------------------------------------
\* The blame cache
\* ------------------------------------------------------------------------
BlameCacheEntry(path, start, end, oid, email) ==
    [path |-> path, start |-> start, end |-> end, oid |-> oid, email |-> email]

\* The file .codereports/.blame-cache: absent, holding text serde_json does
\* not parse as a BlameCache, or holding the serialized entries.
MissingCache == [kind |-> "missing", entries |-> <<>>]
CorruptCache == [kind |-> "corrupt", entries |-> <<>>]
CacheOf(entries) == [kind |-> "entries", entries |-> entries]

\* A cache file whose text does not parse as a BlameCache although it still
\* holds the text of these entries (cut short, or with bytes changed).
DamagedCache(entries) == [kind |-> "corrupt", entries |-> entries]

\* load_blame_cache reading what entries it can out of a file that does not
\* parse.
load_blame_cache_salvages(file) == file.entries

load_blame_cache(file) == IF file.kind = "entries" THEN file.entries ELSE <<>>

save_blame_cache(entries) == CacheOf(entries)

\* The closure of the find at the cache lookup and (negated) of the retain.
SameKey(e, path, start, end, oid) ==
    e.path = path /\ e.start = start /\ e.end = end /\ e.oid = oid

\* SameKey comparing path and range only.
SameKeyAnyOid(e, path, start, end, oid) ==
    e.path = path /\ e.start = start /\ e.end = end

\* FindEntry matching on path and range only.
FindEntryAnyOid(entries, path, start, end, oid) ==
    LET hits == { i \in 1..Len(entries) : SameKeyAnyOid(entries[i], path, start, end, oid) }
    IN  IF hits = {} THEN None
        ELSE Some(entries[CHOOSE i \in hits : \A j \in hits : i <= j])

\* cache.entries.iter().find(..): the first entry with the key, if any.
FindEntry(entries, path, start, end, oid) ==
    LET hits == { i \in 1..Len(entries) : SameKey(entries[i], path, start, end, oid) }
    IN  IF hits = {} THEN None
        ELSE Some(entries[CHOOSE i \in hits : \A j \in hits : i <= j])

\* Upsert that pushes without the retain.
UpsertNoRetain(entries, path, start, end, oid, email) ==
    Append(entries, BlameCacheEntry(path, start, end, oid, email))

\* Upsert whose retain drops every entry of the path.
UpsertDropPath(entries, path, start, end, oid, email) ==
    LET Keep(e) == ~(e.path = path)
    IN  Append(SelectSeq(entries, Keep), BlameCacheEntry(path, start, end, oid, email))

\* Upsert whose retain drops the entries of the path and range under any OID.
UpsertAnyOid(entries, path, start, end, oid, email) ==
    LET Keep(e) == ~SameKeyAnyOid(e, path, start, end, oid)
    IN  Append(SelectSeq(entries, Keep), BlameCacheEntry(path, start, end, oid, email))

\* cache.entries.retain(..) followed by cache.entries.push(..)
Upsert(entries, path, start, end, oid, email) ==
    LET Keep(e) == ~SameKey(e, path, start, end, oid)
    IN  Append(SelectSeq(entries, Keep), BlameCacheEntry(path, start, end, oid, email))

\* ------------------------------------------------------------------------
\* The repository as one call sees it.  env.opens: Repository::open
\* succeeds; env.exists: repo_root.join(path).exists(); env.headOk: HEAD
\* resolves to a commit with a tree; env.treeOid: the blob id the tree holds
\* for the path, if any; env.blame: the email blame yields for the call's
\* window and line, None when blame_file or get_line fails or the email is
\* not UTF-8.
\* ------------------------------------------------------------------------
blob_oid_at_head(env) == IF ~env.headOk THEN None ELSE env.treeOid

\* The author a cache hit returns: the stored email, whatever it is.
HitAuthorVerbatim(author, entry) ==
    [author EXCEPT !.git = Some(entry.email)]

\* Lines 83-86: the author returned on a cache hit.
HitAuthor(author, entry) ==
    IF IsNone(author.git) /\ ~(entry.email = "")
    THEN [author EXCEPT !.git = Some(entry.email)]
    ELSE author

\* Lines 102-104: the author after blame.
BlameAuthor(author, email_opt) ==
    IF IsNone(author.git) /\ IsSome(email_opt)
    THEN [author EXCEPT !.git = email_opt]
    ELSE author

\* What a call returns and does: the ResolvedAuthor, the cache file it leaves,
\* the number of times it loaded the cache, whether it ran blame and whether
\* it saved the cache, and the entry a cache hit found.
Outcome(author, file, loads, blamed, saved, hit) ==
    [author |-> author, file |-> file, loads |-> loads,
     blamed |-> blamed, saved |-> saved, hit |-> hit]

\* resolve_author dropping the codeowner on a cache hit.
resolve_author_hit_forgets_owner(file, fs, env, path, start, end) ==
    LET author == [git |-> None, codeowner |-> codeowner_for_path(fs, path)]
        oid_opt == blob_oid_at_head(env)
        hit == IF IsSome(oid_opt)
               THEN FindEntry(load_blame_cache(file), path, start, end, Unwrap(oid_opt))
               ELSE None
    IN  IF ~env.opens \/ ~env.exists THEN Outcome(author, file, 0, FALSE, FALSE, None)
        ELSE IF IsSome(hit)
        THEN Outcome([git |-> Some(Unwrap(hit).email), codeowner |-> None],
                     file, 1, FALSE, FALSE, hit)
        ELSE IF IsSome(oid_opt) /\ IsSome(env.blame)
        THEN Outcome(BlameAuthor(author, env.blame),
                     save_blame_cache(Upsert(load_blame_cache(file), path, start, end,
                                             Unwrap(oid_opt), Unwrap(env.blame))),
                     2, TRUE, TRUE, None)
        ELSE Outcome(BlameAuthor(author, env.blame), file,
                     IF IsSome(oid_opt) THEN 1 ELSE 0, TRUE, FALSE, None)

\* resolve_author looking the cache up before it checks the repository and
\* the file.
resolve_author_cache_first(file, fs, env, path, start, end) ==
    LET author == [git |-> None, codeowner |-> codeowner_for_path(fs, path)]
        oid_opt == blob_oid_at_head(env)
        hit == IF IsSome(oid_opt)
               THEN FindEntry(load_blame_cache(file), path, start, end, Unwrap(oid_opt))
               ELSE None
    IN  IF IsSome(hit)
        THEN Outcome(HitAuthor(author, Unwrap(hit)), file, 1, FALSE, FALSE, hit)
        ELSE IF ~env.opens \/ ~env.exists
        THEN Outcome(author, file, 0, FALSE, FALSE, None)
        ELSE IF IsSome(oid_opt) /\ IsSome(env.blame)
        THEN Outcome(BlameAuthor(author, env.blame),
                     save_blame_cache(Upsert(load_blame_cache(file), path, start, end,
                                             Unwrap(oid_opt), Unwrap(env.blame))),
                     2, TRUE, TRUE, None)
        ELSE Outcome(BlameAuthor(author, env.blame), file,
                     IF IsSome(oid_opt) THEN 1 ELSE 0, TRUE, FALSE, None)

\* resolve_author caching under the empty OID when HEAD has no blob.
resolve_author_caches_untracked(file, fs, env, path, start, end) ==
    LET author == [git |-> None, codeowner |-> codeowner_for_path(fs, path)]
        oid_opt == blob_oid_at_head(env)
        oid == IF IsSome(oid_opt) THEN Unwrap(oid_opt) ELSE ""
        hit == FindEntry(load_blame_cache(file), path, start, end, oid)
    IN  IF ~env.opens \/ ~env.exists THEN Outcome(author, file, 0, FALSE, FALSE, None)
        ELSE IF IsSome(hit)
        THEN Outcome(HitAuthor(author, Unwrap(hit)), file, 1, FALSE, FALSE, hit)
        ELSE IF IsSome(env.blame)
        THEN Outcome(BlameAuthor(author, env.blame),
                     save_blame_cache(Upsert(load_blame_cache(file), path, start, end,
                                             oid, Unwrap(env.blame))),
                     2, TRUE, TRUE, None)
        ELSE Outcome(BlameAuthor(author, env.blame), file, 1, TRUE, FALSE, None)

\* resolve_author returning early, without blame, when the cache file does not
\* load.
resolve_author_load_error_returns(file, fs, env, path, start, end) ==
    LET author == [git |-> None, codeowner |-> codeowner_for_path(fs, path)]
        oid_opt == blob_oid_at_head(env)
        hit == IF IsSome(oid_opt)
               THEN FindEntry(load_blame_cache(file), path, start, end, Unwrap(oid_opt))
               ELSE None
    IN  IF ~env.opens \/ ~env.exists THEN Outcome(author, file, 0, FALSE, FALSE, None)
        ELSE IF IsSome(oid_opt) /\ file.kind # "entries"
        THEN Outcome(author, file, 1, FALSE, FALSE, None)
        ELSE IF IsSome(hit)
        THEN Outcome(HitAuthor(author, Unwrap(hit)), file, 1, FALSE, FALSE, hit)
        ELSE IF IsSome(oid_opt) /\ IsSome(env.blame)
        THEN Outcome(BlameAuthor(author, env.blame),
                     save_blame_cache(Upsert(load_blame_cache(file), path, start, end,
                                             Unwrap(oid_opt), Unwrap(env.blame))),
                     2, TRUE, TRUE, None)
        ELSE Outcome(BlameAuthor(author, env.blame), file,
                     IF IsSome(oid_opt) THEN 1 ELSE 0, TRUE, FALSE, None)

\* resolve_author caching the empty email when blame yields no identity.
resolve_author_caches_failed_blame(file, fs, env, path, start, end) ==
    LET author == [git |-> None, codeowner |-> codeowner_for_path(fs, path)]
        oid_opt == blob_oid_at_head(env)
        hit == IF IsSome(oid_opt)
               THEN FindEntry(load_blame_cache(file), path, start, end, Unwrap(oid_opt))
               ELSE None
    IN  IF ~env.opens \/ ~env.exists THEN Outcome(author, file, 0, FALSE, FALSE, None)
        ELSE IF IsSome(hit)
        THEN Outcome(HitAuthor(author, Unwrap(hit)), file, 1, FALSE, FALSE, hit)
        ELSE IF IsSome(oid_opt)
        THEN Outcome(BlameAuthor(author, env.blame),
                     save_blame_cache(Upsert(load_blame_cache(file), path, start, end,
                                             Unwrap(oid_opt),
                                             IF IsSome(env.blame) THEN Unwrap(env.blame)
                                             ELSE "")),
                     2, TRUE, TRUE, None)
        ELSE Outcome(BlameAuthor(author, env.blame), file, 0, TRUE, FALSE, None)

\* resolve_author, lines 57-122.
resolve_author(file, fs, env, path, start, end) ==
    LET author == [git |-> None, codeowner |-> codeowner_for_path(fs, path)]
        oid_opt == blob_oid_at_head(env)
        hit == IF IsSome(oid_opt)
               THEN FindEntry(load_blame_cache(file), path, start, end, Unwrap(oid_opt))
               ELSE None
        email_opt == env.blame
    IN  IF ~env.opens THEN Outcome(author, file, 0, FALSE, FALSE, None)
        ELSE IF ~env.exists THEN Outcome(author, file, 0, FALSE, FALSE, None)
        ELSE IF IsSome(hit)
        THEN Outcome(HitAuthor(author, Unwrap(hit)), file, 1, FALSE, FALSE, hit)
        ELSE IF IsSome(oid_opt) /\ IsSome(email_opt)
        THEN Outcome(BlameAuthor(author, email_opt),
                     save_blame_cache(Upsert(load_blame_cache(file), path, start, end,
                                             Unwrap(oid_opt), Unwrap(email_opt))),
                     2, TRUE, TRUE, None)
        ELSE Outcome(BlameAuthor(author, email_opt), file,
                     IF IsSome(oid_opt) THEN 1 ELSE 0, TRUE, FALSE, None)

\* The cache file when it cannot be read (read_to_string fails).
UnreadableCache == [kind |-> "unreadable", entries |-> <<>>]

\* save_blame_cache on a disk: with "ok" the file holds the entries; with
\* "failed" (create_dir_all, the serialization or the opening of the file
\* fails) the file is left as it was; with "partial" (the write fails after
\* the file was truncated) the file holds text that does not parse.  No
\* failure is reported to the caller.
save_blame_cache_on(file, entries, disk) ==
    IF disk = "ok" THEN save_blame_cache(entries)
    ELSE IF disk = "failed" THEN file
    ELSE CorruptCache

\* resolve_author_on giving up its result when the save fails.
resolve_author_on_save_error(file, fs, env, path, start, end, disk) ==
    LET out == resolve_author(file, fs, env, path, start, end)
    IN  IF out.saved
        THEN [out EXCEPT !.file = save_blame_cache_on(file, out.file.entries, disk),
                         !.author = IF disk = "ok" THEN @
                                    ELSE [git |-> None, codeowner |-> None]]
        ELSE out

\* resolve_author on a disk where the save of line 118 has the outcome disk.
resolve_author_on(file, fs, env, path, start, end, disk) ==
    LET out == resolve_author(file, fs, env, path, start, end)
    IN  IF out.saved
        THEN [out EXCEPT !.file = save_blame_cache_on(file, out.file.entries, disk)]
        ELSE out

\* ------------------------------------------------------------------------
\* Bounds and input sets
\* ------------------------------------------------------------------------
MaxOwnerLines == 2      \* lines of an enumerated CODEOWNERS file

MaxCache == 1           \* entries a run grows the cache file to

Paths == { "docs/a.md", "src/main.go" }
Ranges == { <<1, 2>>, <<2, 2>> }
Oids == { "h1", "h2" }
Emails == { "", "old@x.com", "new@x.com" }
EmailOpts == { None } \cup { Some(e) : e \in Emails }
OidOpts == { None } \cup { Some(o) : o \in Oids }

NoCodeowners == [dotGit |-> AbsentFile, root |-> AbsentFile]
CallFs == { NoCodeowners,
            [dotGit |-> AbsentFile, root |-> TextFile("docs/ @docwriters\n")] }

\* The repositories a call can meet.  A directory that is no repository has
\* no HEAD and no blame, and whether the file is on disk is never looked at;
\* a file missing on disk may still be in HEAD's tree, and its blame is never
\* looked at.
Envs ==
    { [opens |-> FALSE, exists |-> FALSE, headOk |-> FALSE, treeOid |-> None, blame |-> None] }
    \cup
    { [opens |-> TRUE, exists |-> FALSE, headOk |-> FALSE, treeOid |-> None, blame |-> None] }
    \cup
    { [opens |-> TRUE, exists |-> FALSE, headOk |-> TRUE, treeOid |-> o, blame |-> None]
        : o \in OidOpts }
    \cup
    { [opens |-> TRUE, exists |-> TRUE, headOk |-> FALSE, treeOid |-> None, blame |-> b]
        : b \in EmailOpts }
    \cup
    { [opens |-> TRUE, exists |-> TRUE, headOk |-> TRUE, treeOid |-> o, blame |-> b]
        : o \in OidOpts, b \in EmailOpts }

\* The cache files a run starts from: none (a fresh checkout), and one left
\* by earlier runs that resolved the same path and range under two blobs.
SeedCaches ==
    { MissingCache,
      CacheOf(<< BlameCacheEntry("docs/a.md", 1, 2, "h1", "old@x.com"),
                 BlameCacheEntry("docs/a.md", 1, 2, "h2", "new@x.com") >>) }

OwnerLinePool ==
    { "*/service/ @team-a",
      "utils/ @team-b",
      "service/ @team-a",
      "utils @team-b",
      "docs/ @docwriters",
      "# docs/ @nobody",
      "  \tsrc/  @core\t@second \r",
      "src/main.go",
      "* @all",
      "" }

RECURSIVE JoinLines(_)
JoinLines(ls) == IF Len(ls) = 0 THEN "" ELSE Head(ls) \o "\n" \o JoinLines(Tail(ls))

OwnerLineSeqs == UNION { [1..n -> OwnerLinePool] : n \in 0..MaxOwnerLines }

OwnerPaths ==
    { "service/utils/file.go", "service/other.go", "src/main.go", "docs\\a.md" }

\* The CODEOWNERS placements enumerated: the file at the root only, in .git
\* only, at both places (the .git one a fixed file), an unreadable file in
\* .git shadowing the root file, an unreadable file at the root, and no file.
OwnerFsOf(c) ==
    { [dotGit |-> AbsentFile,  root |-> TextFile(c)],
      [dotGit |-> TextFile(c), root |-> AbsentFile],
      [dotGit |-> TextFile("docs/ @docwriters\n"), root |-> TextFile(c)],
      [dotGit |-> UnreadableFile, root |-> TextFile(c)],
      [dotGit |-> AbsentFile,  root |-> UnreadableFile],
      [dotGit |-> AbsentFile,  root |-> AbsentFile] }

OwnerFsSet == UNION { OwnerFsOf(JoinLines(ls)) : ls \in OwnerLineSeqs }

Pending == <<"pending">>
Done(r) == <<"done", r>>

\* ------------------------------------------------------------------------
\* SpecOwners: codeowner_for_path applied to enumerated files and paths
\* ------------------------------------------------------------------------
InitOwners ==
    /\ coFs \in OwnerFsSet
    /\ coPath \in OwnerPaths
    /\ coOwner = Pending
    /\ cacheFile = <<>>
    /\ last = <<>>
    /\ pc = <<>>
    /\ loc = <<>>
    /\ hist = <<>>
    /\ cli = <<>>
    /\ query = <<>>

CodeownerQuery ==
    /\ coOwner = Pending
    /\ coOwner' = Done(codeowner_for_path(coFs, coPath))
    /\ UNCHANGED <<coFs, coPath, cacheFile, last, pc, loc, hist, cli, query>>

NextOwners == CodeownerQuery

SpecOwners == InitOwners /\ [][NextOwners]_vars

\* ------------------------------------------------------------------------
\* Spec: resolve_author called again and again by one process, each call on
\* the repository and CODEOWNERS files it finds
\* ------------------------------------------------------------------------
NoCall == [called |-> FALSE]

CallRecord(path, start, end, fs, env, before, out) ==
    [called |-> TRUE, path |-> path, start |-> start, end |-> end,
     fs |-> fs, env |-> env, before |-> before, out |-> out]

Init ==
    /\ cacheFile \in SeedCaches
    /\ last = NoCall
    /\ coFs = NoCodeowners
    /\ coPath = ""
    /\ coOwner = Pending
    /\ pc = <<>>
    /\ loc = <<>>
    /\ hist = <<>>
    /\ cli = <<>>
    /\ query = <<>>

\* The caller holds no result and calls resolve_author.
ResolveAuthor(path, start, end, fs, env) ==
    LET out == resolve_author(cacheFile, fs, env, path, start, end)
    IN  /\ ~last.called
        /\ out.file = cacheFile \/ Len(out.file.entries) <= MaxCache
        /\ cacheFile' = out.file
        /\ last' = CallRecord(path, start, end, fs, env, cacheFile, out)
        /\ UNCHANGED <<coFs, coPath, coOwner, pc, loc, hist, cli, query>>

\* The caller calls resolve_author a second time with the arguments of the
\* call it holds the result of, nothing but the cache having changed.
ResolveAuthorAgain ==
    /\ last.called
    /\ LET out == resolve_author(cacheFile, last.fs, last.env,
                                 last.path, last.start, last.end)
       IN  /\ out.file = cacheFile \/ Len(out.file.entries) <= MaxCache
           /\ cacheFile' = out.file
           /\ last' = CallRecord(last.path, last.start, last.end, last.fs,
                                 last.env, cacheFile, out)
    /\ UNCHANGED <<coFs, coPath, coOwner, pc, loc, hist, cli, query>>

\* The caller drops the result it holds.
DropResult ==
    /\ last.called
    /\ last' = NoCall
    /\ UNCHANGED <<cacheFile, coFs, coPath, coOwner, pc, loc, hist, cli, query>>

Next ==
    \/ \E path \in Paths, r \in Ranges, fs \in CallFs, env \in Envs :
          ResolveAuthor(path, r[1], r[2], fs, env)
    \/ ResolveAuthorAgain
    \/ DropResult

Spec == Init /\ [][Next]_vars

\* ------------------------------------------------------------------------
\* SpecRace: two processes (two CLI runs) in resolve_author on the same
\* repo_root.  A process is atomic between its accesses to the cache file:
\* the load of the lookup, the load of the upsert and the save.
\* ------------------------------------------------------------------------
MaxCalls == 2           \* calls of resolve_author the two processes start

Procs == { 1, 2 }

\* The repository at the start of a call; blame is asked later.
BeginEnvs == { e \in Envs : e.blame = None }

IdleLoc ==
    [path |-> "", start |-> 0, end |-> 0, oid_opt |-> None,
     author |-> [git |-> None, codeowner |-> None],
     loaded |-> <<>>, cache |-> <<>>]

InitRace ==
    /\ cacheFile = MissingCache
    /\ pc = [p \in Procs |-> "idle"]
    /\ loc = [p \in Procs |-> IdleLoc]
    /\ hist = [calls |-> 0, saves |-> <<>>, overlapped |-> FALSE]
    /\ last = NoCall
    /\ coFs = NoCodeowners
    /\ coPath = ""
    /\ coOwner = Pending
    /\ cli = <<>>
    /\ query = <<>>

\* Lines 57-88: the codeowner, the repository, the file, the blob OID and the
\* cache lookup.  The process returns, or goes on to blame on a miss.
Begin(p, path, start, end, fs, env) ==
    LET author == [git |-> None, codeowner |-> codeowner_for_path(fs, path)]
        oid_opt == blob_oid_at_head(env)
        hit == IF IsSome(oid_opt)
               THEN FindEntry(load_blame_cache(cacheFile), path, start, end,
                              Unwrap(oid_opt))
               ELSE None
    IN  /\ pc[p] = "idle"
        /\ hist.calls < MaxCalls
        /\ hist' = [hist EXCEPT !.calls = @ + 1]
        /\ IF ~env.opens \/ ~env.exists \/ IsSome(hit)
           THEN UNCHANGED <<pc, loc>>         \* return author
           ELSE /\ pc' = [pc EXCEPT ![p] = "miss"]
                /\ loc' = [loc EXCEPT ![p] =
                              [IdleLoc EXCEPT !.path = path, !.start = start,
                                              !.end = end, !.oid_opt = oid_opt,
                                              !.author = author]]
        /\ UNCHANGED <<cacheFile, last, coFs, coPath, coOwner, cli, query>>

\* Lines 90-117: blame, which yields email_opt, and with an OID and an email
\* the load of the cache, the retain and the push.
Blame(p, email_opt) ==
    LET l == loc[p]
        entries == load_blame_cache(cacheFile)
    IN  /\ pc[p] = "miss"
        /\ IF IsSome(l.oid_opt) /\ IsSome(email_opt)
           THEN /\ pc' = [pc EXCEPT ![p] = "loaded"]
                /\ loc' = [loc EXCEPT ![p] =
                              [l EXCEPT !.author = BlameAuthor(l.author, email_opt),
                                        !.loaded = entries,
                                        !.cache = Upsert(entries, l.path, l.start, l.end,
                                                         Unwrap(l.oid_opt),
                                                         Unwrap(email_opt))]]
                /\ hist' = [hist EXCEPT !.overlapped =
                               @ \/ \E q \in Procs \ {p} : pc[q] = "loaded"]
           ELSE /\ pc' = [pc EXCEPT ![p] = "idle"]      \* return author
                /\ loc' = [loc EXCEPT ![p] = IdleLoc]
                /\ UNCHANGED hist
        /\ UNCHANGED <<cacheFile, last, coFs, coPath, coOwner, cli, query>>

\* Lines 118-121: the save of the cache.
Save(p) ==
    LET l == loc[p]
    IN  /\ pc[p] = "loaded"
        /\ cacheFile' = save_blame_cache(l.cache)
        /\ hist' = [hist EXCEPT !.saves =
                       Append(@, [proc |-> p, entry |-> l.cache[Len(l.cache)],
                                  loaded |-> l.loaded])]
        /\ pc' = [pc EXCEPT ![p] = "idle"]              \* return author
        /\ loc' = [loc EXCEPT ![p] = IdleLoc]
        /\ UNCHANGED <<last, coFs, coPath, coOwner, cli, query>>

NextRace ==
    \/ \E p \in Procs, path \in Paths, r \in Ranges, fs \in CallFs, env \in BeginEnvs :
          Begin(p, path, r[1], r[2], fs, env)
    \/ \E p \in Procs, email_opt \in EmailOpts : Blame(p, email_opt)
    \/ \E p \in Procs : Save(p)

SpecRace == InitRace /\ [][NextRace]_vars

\* ------------------------------------------------------------------------
\* SpecStore: one resolve_author call on an enumerated cache file, with the
\* save succeeding or failing
\* ------------------------------------------------------------------------
MaxStore == 3           \* entries of an enumerated cache file

\* Entries that share the key of a call of "docs/a.md", 1-2 under "h1", or
\* differ from it in exactly one key field.
StorePool ==
    { BlameCacheEntry("docs/a.md", 1, 2, "h1", "old@x.com"),
      BlameCacheEntry("src/main.go", 1, 2, "h1", "old@x.com"),
      BlameCacheEntry("docs/a.md", 2, 2, "h1", "new@x.com"),
      BlameCacheEntry("docs/a.md", 1, 1, "h1", "new@x.com"),
      BlameCacheEntry("docs/a.md", 1, 2, "h2", "") }

\* The stores without a repeated entry, in every order.
StoreSeqs ==
    UNION { { q \in [1..n -> StorePool] : \A i, j \in 1..n : q[i] = q[j] => i = j }
            : n \in 0..MaxStore }

StoreFiles ==
    { MissingCache, UnreadableCache, CorruptCache } \cup { CacheOf(q) : q \in StoreSeqs }

StoreRanges == Ranges \cup { <<1, 1>> }

Disks == { "ok", "failed", "partial" }

StoreRecord(path, start, end, fs, env, before, out, disk) ==
    [called |-> TRUE, path |-> path, start |-> start, end |-> end,
     fs |-> fs, env |-> env, before |-> before, out |-> out, disk |-> disk]

InitStore ==
    /\ cacheFile \in StoreFiles
    /\ last = NoCall
    /\ coFs = NoCodeowners
    /\ coPath = ""
    /\ coOwner = Pending
    /\ pc = <<>>
    /\ loc = <<>>
    /\ hist = <<>>
    /\ cli = <<>>
    /\ query = <<>>

\* The call.  The outcome of the save is drawn only when the call saves.
ResolveOnDisk(path, start, end, fs, env, disk) ==
    LET out == resolve_author_on(cacheFile, fs, env, path, start, end, disk)
    IN  /\ ~last.called
        /\ out.saved \/ disk = "ok"
        /\ cacheFile' = out.file
        /\ last' = StoreRecord(path, start, end, fs, env, cacheFile, out, disk)
        /\ UNCHANGED <<coFs, coPath, coOwner, pc, loc, hist, cli, query>>

NextStore ==
    /\ ~last.called
    /\ \E path \in Paths, r \in StoreRanges, fs \in CallFs, env \in Envs, disk \in Disks :
          ResolveOnDisk(path, r[1], r[2], fs, env, disk)

SpecStore == InitStore /\ [][NextStore]_vars

\* ------------------------------------------------------------------------
\* config.rs and reports.rs as cli.rs uses them.  Result<T, String> is an
\* Option<T>: Err(_) is None, the message being printed and dropped.
\* ------------------------------------------------------------------------
UpperLetters == "ABCDEFGHIJKLMNOPQRSTUVWXYZ"
LowerLetters == "abcdefghijklmnopqrstuvwxyz"

\* str::find and str::rfind of a character, as 1-based positions.
Find(s, c) ==
    IF \E i \in 1..Len(s) : Char(s, i) = c
    THEN Some(CHOOSE i \in 1..Len(s) :
                  Char(s, i) = c /\ \A j \in 1..(i - 1) : Char(s, j) # c)
    ELSE None

RFind(s, c) ==
    IF \E i \in 1..Len(s) : Char(s, i) = c
    THEN Some(CHOOSE i \in 1..Len(s) :
                  Char(s, i) = c /\ \A j \in (i + 1)..Len(s) : Char(s, j) # c)
    ELSE None

to_lowercase(c) ==
    IF IsSome(Find(UpperLetters, c))
    THEN Char(LowerLetters, Unwrap(Find(UpperLetters, c)))
    ELSE c

RECURSIVE to_ascii_lowercase(_)
to_ascii_lowercase(s) ==
    IF Len(s) = 0 THEN ""
    ELSE to_lowercase(Char(s, 1)) \o to_ascii_lowercase(SubSeq(s, 2, Len(s)))

\* Tag::from_str; a Tag is its as_str.
Tag_from_str(s) ==
    IF to_ascii_lowercase(s) \in { "todo", "refactor", "buggy", "critical" }
    THEN Some(to_ascii_lowercase(s))
    ELSE None

\* Severity::from_str; a Severity is its lowercase name.
Severity_from_str(s) ==
    IF to_ascii_lowercase(s) \in { "low", "medium", "high", "blocking" }
    THEN Some(to_ascii_lowercase(s))
    ELSE None

CONFIG_VERSION == 1
REPORTS_VERSION == 1

TagConfig(enabled, severity, expires) ==
    [enabled |-> enabled, severity |-> severity, expires |-> expires]

\* .codereports/config.yaml: absent, not a Config, or a Config whose tags map
\* the keys of the file to their TagConfig.
MissingConfig == [kind |-> "missing", version |-> 0, tags |-> <<>>]
InvalidConfig == [kind |-> "invalid", version |-> 0, tags |-> <<>>]
ConfigOf(version, tags) == [kind |-> "yaml", version |-> version, tags |-> tags]

load_config(file) ==
    IF file.kind # "yaml" THEN None
    ELSE IF file.version # CONFIG_VERSION THEN None
    ELSE IF \E name \in DOMAIN file.tags :
                IsNone(Severity_from_str(file.tags[name].severity))
    THEN None
    ELSE Some([version |-> file.version, tags |-> file.tags])

validate_tag_for_add(config, tag_str) ==
    LET tag == Tag_from_str(tag_str)
    IN  IF IsNone(tag) THEN None
        ELSE IF Unwrap(tag) \notin DOMAIN config.tags THEN None
        ELSE IF ~config.tags[Unwrap(tag)].enabled THEN None
        ELSE tag

expires_days(config, tag) ==
    IF tag \in DOMAIN config.tags THEN config.tags[tag].expires ELSE None

severity(config, tag) ==
    IF tag \in DOMAIN config.tags
    THEN Severity_from_str(config.tags[tag].severity)
    ELSE None

\* A ReportEntry; message and created_at, which no decision reads, are left
\* out.
ReportEntry(id, path, start, end, tag, author, expires_at, status) ==
    [id |-> id, path |-> path, range |-> [start |-> start, end |-> end],
     tag |-> tag, author |-> author, expires_at |-> expires_at, status |-> status]

\* .codereports/reports.yaml.
MissingReports == [kind |-> "missing", version |-> 0, entries |-> <<>>]
UnreadableReports == [kind |-> "unreadable", version |-> 0, entries |-> <<>>]
InvalidReports == [kind |-> "invalid", version |-> 0, entries |-> <<>>]
ReportsOf(version, entries) == [kind |-> "yaml", version |-> version, entries |-> entries]

load_reports(file) ==
    IF file.kind = "missing"
    THEN Some([version |-> REPORTS_VERSION, entries |-> <<>>])
    ELSE IF file.kind # "yaml" THEN None
    ELSE IF file.version # REPORTS_VERSION THEN None
    ELSE Some([version |-> file.version, entries |-> file.entries])

\* The order of str: bytes compared from the left, a proper prefix being
\* less.  AsciiOrder lists the characters of the dates by their byte.
AsciiOrder == "-0123456789"

Byte(c) == Unwrap(Find(AsciiOrder, c))

RECURSIVE StrLess(_, _)
StrLess(a, b) ==
    IF Len(b) = 0 THEN FALSE
    ELSE IF Len(a) = 0 THEN TRUE
    ELSE IF Char(a, 1) # Char(b, 1) THEN Byte(Char(a, 1)) < Byte(Char(b, 1))
    ELSE StrLess(SubSeq(a, 2, Len(a)), SubSeq(b, 2, Len(b)))

\* The body of the loop of cmd_check: whether entry e is pushed to violations.
IsViolation(cfg, today, e) ==
    IF e.status # "open" THEN FALSE
    ELSE IF IsNone(Tag_from_str(e.tag)) THEN FALSE
    ELSE IF IsNone(severity(cfg, Unwrap(Tag_from_str(e.tag)))) THEN FALSE
    ELSE LET blocking == Unwrap(severity(cfg, Unwrap(Tag_from_str(e.tag)))) = "blocking"
             expired == IF IsSome(e.expires_at)
                        THEN StrLess(Unwrap(e.expires_at), today)
                        ELSE FALSE
         IN  blocking \/ expired

\* cmd_check: the exit code and the violations printed.
cmd_check(configFile, reportsFile, today) ==
    LET cfg == load_config(configFile)
        reports_list == load_reports(reportsFile)
    IN  IF IsNone(cfg) THEN [exit |-> 1, violations |-> <<>>]
        ELSE IF IsNone(reports_list) THEN [exit |-> 1, violations |-> <<>>]
        ELSE LET Violates(e) == IsViolation(Unwrap(cfg), today, e)
                 violations == SelectSeq(Unwrap(reports_list).entries, Violates)
             IN  [exit |-> IF violations = <<>> THEN 0 ELSE 1,
                  violations |-> violations]

\* ------------------------------------------------------------------------
\* SpecCheck: one run of the check command on enumerated files
\* ------------------------------------------------------------------------
MaxCheckEntries == 2    \* entries of an enumerated reports.yaml

Today == "2026-11-02"

NoAuthor == [git |-> None, codeowner |-> None]

\* The configs: "todo" and "critical" each absent or present, plus files that
\* do not load.
CheckTodoConfigs == { None, Some(TagConfig(TRUE, "low", None)) }

CheckCriticalConfigs ==
    { None, Some(TagConfig(TRUE, "Blocking", Some(14))), Some(TagConfig(FALSE, "high", None)) }

TagsOf(todo, critical) ==
    [name \in (IF IsSome(todo) THEN { "todo" } ELSE {})
              \cup (IF IsSome(critical) THEN { "critical" } ELSE {}) |->
        IF name = "todo" THEN Unwrap(todo) ELSE Unwrap(critical)]

CheckConfigs ==
    { ConfigOf(CONFIG_VERSION, TagsOf(t, c)) : t \in CheckTodoConfigs, c \in CheckCriticalConfigs }
    \cup { MissingConfig, InvalidConfig,
           ConfigOf(CONFIG_VERSION + 1, TagsOf(None, None)),
           ConfigOf(CONFIG_VERSION, TagsOf(Some(TagConfig(TRUE, "urgent", None)), None)) }

CheckEntries ==
    { ReportEntry("CR-000001", "src/main.go", 1, 2, tag, NoAuthor, expires_at, status) :
        tag \in { "todo", "Critical", "urgent" },
        expires_at \in { None, Some("2026-11-01"), Some("2026-11-02"), Some("2026-11-10") },
        status \in { "open", "resolved" } }

CheckReports ==
    { ReportsOf(REPORTS_VERSION, q) :
        q \in UNION { [1..n -> CheckEntries] : n \in 0..MaxCheckEntries } }
    \cup { MissingReports, UnreadableReports, InvalidReports,
           ReportsOf(REPORTS_VERSION + 1, <<>>) }

InitCheck ==
    /\ cli = <<>>
    /\ query = <<>>
    /\ cacheFile = MissingCache
    /\ last = NoCall
    /\ coFs = NoCodeowners
    /\ coPath = ""
    /\ coOwner = Pending
    /\ pc = <<>>
    /\ loc = <<>>
    /\ hist = <<>>

CmdCheck(configFile, reportsFile) ==
    /\ cli = <<>>
    /\ cli' = [cmd |-> "check", config |-> configFile, reports |-> reportsFile,
               today |-> Today, out |-> cmd_check(configFile, reportsFile, Today)]
    /\ UNCHANGED <<coFs, coPath, coOwner, cacheFile, last, pc, loc, hist, query>>

NextCheck ==
    /\ cli = <<>>
    /\ \E configFile \in CheckConfigs, reportsFile \in CheckReports :
          CmdCheck(configFile, reportsFile)

SpecCheck == InitCheck /\ [][NextCheck]_vars

\* ------------------------------------------------------------------------
\* Report ids (reports.rs)
\* ------------------------------------------------------------------------
Digits == "0123456789"

IsDigit(c) == IsSome(Find(Digits, c))

DigitValue(c) == Unwrap(Find(Digits, c)) - 1

\* The decimal numeral of u32::MAX.
U32_MAX == "4294967295"

\* The value of a string of decimal digits.
RECURSIVE DecimalValue(_)
DecimalValue(s) ==
    IF Len(s) = 0 THEN 0
    ELSE 10 * DecimalValue(SubSeq(s, 1, Len(s) - 1)) + DigitValue(Char(s, Len(s)))

\* Whether a string of decimal digits is at most u32::MAX, decided on the
\* numerals: the one without its leading zeros is shorter than U32_MAX, or
\* as long and not after it.
FitsU32(digits) ==
    LET numeral == TrimStartMatches(digits, "0")
    IN  \/ Len(numeral) < Len(U32_MAX)
        \/ Len(numeral) = Len(U32_MAX) /\ ~StrLess(U32_MAX, numeral)

\* str::parse::<u32>: an optional "+", then one digit or more and nothing
\* else, the value fitting 32 bits.
parse_u32(s) ==
    LET digits == IF Len(s) > 0 /\ Char(s, 1) = "+" THEN SubSeq(s, 2, Len(s)) ELSE s
    IN  IF Len(digits) = 0 THEN None
        ELSE IF \E i \in 1..Len(digits) : ~IsDigit(Char(digits, i)) THEN None
        ELSE IF ~FitsU32(digits) THEN None
        ELSE Some(DecimalValue(digits))

\* Display of an unsigned integer.
RECURSIVE FormatDecimal(_)
FormatDecimal(n) ==
    IF n < 10 THEN Char(Digits, n + 1)
    ELSE FormatDecimal(n \div 10) \o Char(Digits, (n % 10) + 1)

\* Zeros on the left up to a width.
RECURSIVE ZeroPad(_, _)
ZeroPad(s, width) == IF Len(s) >= width THEN s ELSE ZeroPad("0" \o s, width)

\* The format {:06}.
ZeroPad6(s) == ZeroPad(s, 6)

parse_report_id(id) ==
    IF StartsWith(id, "CR-") THEN parse_u32(SubSeq(id, 4, Len(id))) ELSE None

RECURSIVE max_id(_)
max_id(entries) ==
    IF Len(entries) = 0 THEN 0
    ELSE LET n == parse_report_id(entries[Len(entries)].id)
             m == max_id(SubSeq(entries, 1, Len(entries) - 1))
         IN  IF IsSome(n) /\ Unwrap(n) > m THEN Unwrap(n) ELSE m

next_id(entries) == "CR-" \o ZeroPad6(FormatDecimal(max_id(entries) + 1))

add_entry(entries, entry) == Append(entries, entry)

\* The position of the first entry with the id, 0 if there is none.
PositionById(entries, id) ==
    IF \E i \in 1..Len(entries) : entries[i].id = id
    THEN CHOOSE i \in 1..Len(entries) :
             entries[i].id = id /\ \A j \in 1..(i - 1) : entries[j].id # id
    ELSE 0

\* delete_by_id and resolve_by_id: the entries afterwards and the value
\* returned.
delete_by_id(entries, id) ==
    LET pos == PositionById(entries, id)
    IN  IF pos = 0 THEN [entries |-> entries, found |-> FALSE]
        ELSE [entries |-> SubSeq(entries, 1, pos - 1)
                              \o SubSeq(entries, pos + 1, Len(entries)),
              found |-> TRUE]

resolve_by_id(entries, id) ==
    LET pos == PositionById(entries, id)
    IN  IF pos = 0 THEN [entries |-> entries, found |-> FALSE]
        ELSE [entries |-> [entries EXCEPT ![pos].status = "resolved"],
              found |-> TRUE]

\* ------------------------------------------------------------------------
\* SpecReports: a Reports value under add_entry with the id of next_id,
\* delete_by_id and resolve_by_id
\* ------------------------------------------------------------------------
MaxIssued == 3          \* calls of next_id in a behaviour

OpenEntry(id) == ReportEntry(id, "src/main.go", 1, 2, "todo", NoAuthor, None, "open")

\* The lists a behaviour starts from: empty, or one entry written by hand.
SeedEntries == { <<>>, <<OpenEntry("CR-7")>>, <<OpenEntry("CR-00000x")>> }

\* The ids a command line can name: those of the list and one of no entry.
NamedIds(entries) == { entries[i].id : i \in 1..Len(entries) } \cup { "CR-000009" }

InitReports ==
    /\ cli \in { [entries |-> q, issued |-> <<>>, found |-> TRUE] : q \in SeedEntries }
    /\ query = <<>>
    /\ cacheFile = MissingCache
    /\ last = NoCall
    /\ coFs = NoCodeowners
    /\ coPath = ""
    /\ coOwner = Pending
    /\ pc = <<>>
    /\ loc = <<>>
    /\ hist = <<>>

AddEntry ==
    /\ Len(cli.issued) < MaxIssued
    /\ LET id == next_id(cli.entries)
       IN  cli' = [entries |-> add_entry(cli.entries, OpenEntry(id)),
                   issued |-> Append(cli.issued, id),
                   found |-> TRUE]
    /\ UNCHANGED <<coFs, coPath, coOwner, cacheFile, last, pc, loc, hist, query>>

DeleteById(id) ==
    /\ cli' = [cli EXCEPT !.entries = delete_by_id(cli.entries, id).entries,
                          !.found = delete_by_id(cli.entries, id).found]
    /\ UNCHANGED <<coFs, coPath, coOwner, cacheFile, last, pc, loc, hist, query>>

ResolveById(id) ==
    /\ cli' = [cli EXCEPT !.entries = resolve_by_id(cli.entries, id).entries,
                          !.found = resolve_by_id(cli.entries, id).found]
    /\ UNCHANGED <<coFs, coPath, coOwner, cacheFile, last, pc, loc, hist, query>>

NextReports ==
    \/ AddEntry
    \/ \E id \in NamedIds(cli.entries) : DeleteById(id)
    \/ \E id \in NamedIds(cli.entries) : ResolveById(id)

SpecReports == InitReports /\ [][NextReports]_vars

\* ------------------------------------------------------------------------
\* The add command (cli.rs)
\* ------------------------------------------------------------------------
\* parse_location without the check of the range.
parse_location_unchecked(location) ==
    LET colon == RFind(location, ":")
        path_part == SubSeq(location, 1, Unwrap(colon) - 1)
        range_part == TrimStartMatches(SubSeq(location, Unwrap(colon), Len(location)), ":")
        path == Trim(path_part)
        dash == Find(range_part, "-")
        start_s == SubSeq(range_part, 1, Unwrap(dash) - 1)
        end_s == SubSeq(range_part, Unwrap(dash), Len(range_part))
        start == parse_u32(Trim(start_s))
        end == parse_u32(Trim(TrimStartMatches(end_s, "-")))
    IN  IF IsNone(colon) THEN None
        ELSE IF path = "" THEN None
        ELSE IF IsNone(dash) THEN None
        ELSE IF IsNone(start) THEN None
        ELSE IF IsNone(end) THEN None
        ELSE Some([path |-> Replace(path, "\\", "/"),
                   start |-> Unwrap(start), end |-> Unwrap(end)])

\* parse_location: "path:start-end" to (path, start, end), or an error.
parse_location(location) ==
    LET colon == RFind(location, ":")
        path_part == SubSeq(location, 1, Unwrap(colon) - 1)
        range_part == TrimStartMatches(SubSeq(location, Unwrap(colon), Len(location)), ":")
        path == Trim(path_part)
        dash == Find(range_part, "-")
        start_s == SubSeq(range_part, 1, Unwrap(dash) - 1)
        end_s == SubSeq(range_part, Unwrap(dash), Len(range_part))
        start == parse_u32(Trim(start_s))
        end == parse_u32(Trim(TrimStartMatches(end_s, "-")))
    IN  IF IsNone(colon) THEN None
        ELSE IF path = "" THEN None
        ELSE IF IsNone(dash) THEN None
        ELSE IF IsNone(start) THEN None
        ELSE IF IsNone(end) THEN None
        ELSE IF Unwrap(start) = 0 \/ Unwrap(end) < Unwrap(start) THEN None
        ELSE Some([path |-> Replace(path, "\\", "/"),
                   start |-> Unwrap(start), end |-> Unwrap(end)])

\* The calendar of chrono: a date "%Y-%m-%d" and the date n days after it.
IsLeapYear(y) == (y % 4 = 0 /\ y % 100 # 0) \/ y % 400 = 0

DaysInMonth(y, m) ==
    IF m = 2 THEN (IF IsLeapYear(y) THEN 29 ELSE 28)
    ELSE IF m \in { 4, 6, 9, 11 } THEN 30
    ELSE 31

FormatDate(y, m, d) ==
    ZeroPad(FormatDecimal(y), 4) \o "-" \o ZeroPad(FormatDecimal(m), 2)
        \o "-" \o ZeroPad(FormatDecimal(d), 2)

RECURSIVE AddDaysTo(_, _, _, _)
AddDaysTo(y, m, d, n) ==
    IF n = 0 THEN FormatDate(y, m, d)
    ELSE IF d < DaysInMonth(y, m) THEN AddDaysTo(y, m, d + 1, n - 1)
    ELSE IF m < 12 THEN AddDaysTo(y, m + 1, 1, n - 1)
    ELSE AddDaysTo(y + 1, 1, 1, n - 1)

AddDays(date, n) ==
    AddDaysTo(DecimalValue(SubSeq(date, 1, 4)), DecimalValue(SubSeq(date, 6, 7)),
              DecimalValue(SubSeq(date, 9, 10)), n)

\* No command ran, or the command ended before resolve_author.
AddFailed(reportsFile, file) ==
    [exit |-> 1, called |-> FALSE, reports |-> reportsFile, file |-> file,
     call |-> NoCall]

\* cmd_add: the exit code, whether resolve_author was called and with what,
\* and reports.yaml and the cache file afterwards.  save_reports writes a
\* temporary file and renames it, so a failed save leaves reports.yaml as it
\* was.
cmd_add(location, tag_str, configFile, reportsFile, file, fs, env, today, saveOk) ==
    LET parsed == parse_location(location)
        cfg == load_config(configFile)
        tag == validate_tag_for_add(Unwrap(cfg), tag_str)
        reports_list == load_reports(reportsFile)
        path == Unwrap(parsed).path
        start == Unwrap(parsed).start
        end == Unwrap(parsed).end
        author_resolved == resolve_author(file, fs, env, path, start, end)
        days == expires_days(Unwrap(cfg), Unwrap(tag))
        expires_at == IF IsSome(days) THEN Some(AddDays(today, Unwrap(days))) ELSE None
        id == next_id(Unwrap(reports_list).entries)
        entry == ReportEntry(id, path, start, end, Unwrap(tag),
                             author_resolved.author, expires_at, "open")
    IN  IF IsNone(parsed) THEN AddFailed(reportsFile, file)
        ELSE IF IsNone(cfg) THEN AddFailed(reportsFile, file)
        ELSE IF IsNone(tag) THEN AddFailed(reportsFile, file)
        ELSE IF IsNone(reports_list) THEN AddFailed(reportsFile, file)
        ELSE [exit |-> IF saveOk THEN 0 ELSE 1,
              called |-> TRUE,
              reports |-> IF saveOk
                          THEN ReportsOf(Unwrap(reports_list).version,
                                         add_entry(Unwrap(reports_list).entries, entry))
                          ELSE reportsFile,
              file |-> author_resolved.file,
              call |-> CallRecord(path, start, end, fs, env, file, author_resolved)]

\* ------------------------------------------------------------------------
\* SpecLocation: one run of the add command on an enumerated command line
\* ------------------------------------------------------------------------
MaxLineNo == 2          \* the line numbers written in a location

LocationPaths == { " src\\main.go ", "C:\\a.md", "" }

Numerals ==
    { FormatDecimal(n) : n \in 0..MaxLineNo }
    \cup { " 2", "+1", "002", "", "x", "4294967296" }

\* The pieces of a location: the path, the colon or none, the start, the
\* dashes or none, the end.
LocationPieces ==
    { <<path, colon, start_s, dash, end_s>> :
        path \in LocationPaths, colon \in { ":", "" }, start_s \in Numerals,
        dash \in { "-", "--", "" }, end_s \in Numerals }

LocationOf(pieces) == pieces[1] \o pieces[2] \o pieces[3] \o pieces[4] \o pieces[5]

AddTags == { "Critical", "urgent" }

DefaultTags ==
    TagsOf(Some(TagConfig(TRUE, "low", None)), Some(TagConfig(TRUE, "blocking", Some(14))))

AddConfigs == { ConfigOf(CONFIG_VERSION, DefaultTags), MissingConfig }

AddReports == { ReportsOf(REPORTS_VERSION, <<OpenEntry("CR-000041")>>), InvalidReports }

AddEnvs ==
    { env \in Envs : \/ ~env.opens
                     \/ env.exists /\ env.treeOid = Some("h1") /\ env.blame = Some("new@x.com") }

\* The inputs of a command that fails before it reads them.
ClosedEnv == CHOOSE env \in Envs : ~env.opens

InitLocation ==
    /\ cli = <<>>
    /\ query = <<>>
    /\ cacheFile = MissingCache
    /\ last = NoCall
    /\ coFs = NoCodeowners
    /\ coPath = ""
    /\ coOwner = Pending
    /\ pc = <<>>
    /\ loc = <<>>
    /\ hist = <<>>

CmdAdd(pieces, tag_str, configFile, reportsFile, env, saveOk) ==
    LET location == LocationOf(pieces)
        out == cmd_add(location, tag_str, configFile, reportsFile, cacheFile,
                       NoCodeowners, env, Today, saveOk)
    IN  /\ cli = <<>>
        /\ cli' = [cmd |-> "add", pieces |-> pieces, location |-> location,
                   tag |-> tag_str, config |-> configFile, before |-> reportsFile,
                   saveOk |-> saveOk, exit |-> out.exit, called |-> out.called,
                   reports |-> out.reports]
        /\ cacheFile' = out.file
        /\ last' = out.call
        /\ UNCHANGED <<coFs, coPath, coOwner, pc, loc, hist, query>>

\* One command per behaviour.  A location that does not parse ends the
\* command before any file is read, so the files are drawn only for a
\* location that parses.
NextLocation ==
    /\ cli = <<>>
    /\ \E pieces \in LocationPieces :
          IF IsSome(parse_location(LocationOf(pieces)))
          THEN \E tag_str \in AddTags, configFile \in AddConfigs,
                  reportsFile \in AddReports, env \in AddEnvs, saveOk \in BOOLEAN :
                   CmdAdd(pieces, tag_str, configFile, reportsFile, env, saveOk)
          ELSE CmdAdd(pieces, "todo", MissingConfig, MissingReports, ClosedEnv, TRUE)

SpecLocation == InitLocation /\ [][NextLocation]_vars

\* ------------------------------------------------------------------------
\* SpecPattern: codeowners_pattern_matches on enumerated patterns and paths
\* ------------------------------------------------------------------------
MaxPatLen == 3          \* characters of an enumerated pattern
MaxPathLen == 4         \* characters of an enumerated path

Alphabet == { "a", "b", "/" }

RECURSIVE Words(_)
Words(n) == IF n = 0 THEN { "" } ELSE { w \o c : w \in Words(n - 1), c \in Alphabet }

WordsUpTo(n) == UNION { Words(k) : k \in 0..n }

Patterns == WordsUpTo(MaxPatLen) \cup { "*", "/*", "*/", "ut", "utils", "docs/" }

MatchPaths == WordsUpTo(MaxPathLen) \cup { "a/utils/x", "utils/x", "docs/a.md", "*" }

InitPattern ==
    /\ query = <<>>
    /\ cli = <<>>
    /\ cacheFile = MissingCache
    /\ last = NoCall
    /\ coFs = NoCodeowners
    /\ coPath = ""
    /\ coOwner = Pending
    /\ pc = <<>>
    /\ loc = <<>>
    /\ hist = <<>>

PatternQuery(pattern, path) ==
    /\ query = <<>>
    /\ query' = [pattern |-> pattern, path |-> path,
                 matches |-> codeowners_pattern_matches(pattern, path)]
    /\ UNCHANGED <<coFs, coPath, coOwner, cacheFile, last, pc, loc, hist, cli>>

NextPattern ==
    /\ query = <<>>
    /\ \E pattern \in Patterns, path \in MatchPaths : PatternQuery(pattern, path)

SpecPattern == InitPattern /\ [][NextPattern]_vars

\* ------------------------------------------------------------------------
\* Blame by line (author.rs, lines 90-101)
\* ------------------------------------------------------------------------
\* A file as blame sees it: sigs[i] is the email of the final signature of
\* the hunk of line i, None when that signature has no email that is UTF-8;
\* engineOk is whether blame_file returns a blame.  When the engine fails (a
\* binary file, a window past the end of the file, an unreadable object) is
\* its own choice, so engineOk is drawn freely.
BlamedFile(sigs, engineOk) == [sigs |-> sigs, engineOk |-> engineOk]

\* The BlameOptions of lines 91-93.
blame_options(start, end) ==
    [min_line |-> start, max_line |-> IF end > start THEN end ELSE start]

\* repo.blame_file: an error, or the hunks of the lines of the window.  A
\* min_line of 0 stands for the first line and a max_line of 0 for the last.
blame_file(file, opts) ==
    LET lo == IF opts.min_line = 0 THEN 1 ELSE opts.min_line
        hi == IF opts.max_line = 0 \/ opts.max_line > Len(file.sigs)
              THEN Len(file.sigs)
              ELSE opts.max_line
    IN  IF file.engineOk THEN Some([lines |-> lo..hi, sigs |-> file.sigs]) ELSE None

\* blame.get_line: the hunk of the line, which is here the email of its final
\* signature.
get_line(blame, line_no) ==
    IF line_no \in blame.lines THEN Some(blame.sigs[line_no]) ELSE None

\* email_opt taking the last line of the window.
blame_email_last_line(file, start, end) ==
    LET opts == blame_options(start, end)
        blame == blame_file(file, opts)
        line_no == IF opts.max_line > 1 THEN opts.max_line ELSE 1
        hunk == get_line(Unwrap(blame), line_no)
    IN  IF IsSome(blame)
        THEN (IF IsSome(hunk) THEN Unwrap(hunk) ELSE None)
        ELSE None

\* email_opt of lines 94-101.
blame_email(file, start, end) ==
    LET opts == blame_options(start, end)
        blame == blame_file(file, opts)
        line_no == IF start > 1 THEN start ELSE 1
        hunk == get_line(Unwrap(blame), line_no)
    IN  IF IsSome(blame)
        THEN (IF IsSome(hunk) THEN Unwrap(hunk) ELSE None)
        ELSE None

\* ------------------------------------------------------------------------
\* SpecBlame: one resolve_author call on a file blamed line by line
\* ------------------------------------------------------------------------
MaxFileLines == 3       \* lines of the blamed file
MaxLine == 4            \* the largest start and end of a call

LineSigs == { None, Some("old@x.com"), Some("new@x.com") }

BlamedFiles ==
    { BlamedFile(sigs, engineOk) :
        sigs \in UNION { [1..n -> LineSigs] : n \in 0..MaxFileLines },
        engineOk \in BOOLEAN }

\* The repository of the call: it opens, the file is on disk, and blame is
\* what the file gives for the range.
BlameEnv(file, oid_opt, start, end) ==
    [opens |-> TRUE, exists |-> TRUE, headOk |-> TRUE, treeOid |-> oid_opt,
     blame |-> blame_email(file, start, end)]

InitBlame ==
    /\ cacheFile \in SeedCaches
    /\ last = NoCall
    /\ query = <<>>
    /\ cli = <<>>
    /\ coFs = NoCodeowners
    /\ coPath = ""
    /\ coOwner = Pending
    /\ pc = <<>>
    /\ loc = <<>>
    /\ hist = <<>>

ResolveByLine(file, oid_opt, start, end) ==
    LET env == BlameEnv(file, oid_opt, start, end)
        out == resolve_author(cacheFile, NoCodeowners, env, "docs/a.md", start, end)
    IN  /\ ~last.called
        /\ cacheFile' = out.file
        /\ last' = CallRecord("docs/a.md", start, end, NoCodeowners, env, cacheFile, out)
        /\ query' = [file |-> file, opts |-> blame_options(start, end)]
        /\ UNCHANGED <<coFs, coPath, coOwner, pc, loc, hist, cli>>

NextBlame ==
    /\ ~last.called
    /\ \E file \in BlamedFiles, oid_opt \in { None, Some("h1") },
          start \in 0..MaxLine, end \in 0..MaxLine :
           ResolveByLine(file, oid_opt, start, end)

SpecBlame == InitBlame /\ [][NextBlame]_vars

\* ------------------------------------------------------------------------
\* SpecCorrupt: a cache file with entries is damaged, a call upserts into it,
\* and one more call follows
\* ------------------------------------------------------------------------
MaxHeld == 2            \* entries of the cache file before it is damaged

HeldPool ==
    { BlameCacheEntry("docs/a.md", 1, 2, "h1", "old@x.com"),
      BlameCacheEntry("docs/a.md", 2, 2, "h1", "new@x.com"),
      BlameCacheEntry("src/main.go", 1, 2, "h1", "old@x.com") }

HeldSeqs ==
    UNION { { q \in [1..n -> HeldPool] : \A i, j \in 1..n : q[i] = q[j] => i = j }
            : n \in 1..MaxHeld }

\* hist.phase: "intact", then "damaged" until a call persists a store,
\* "recovered" after that call, and "later" after the call that follows it.
\* hist.held are the entries the file held when it was damaged, and
\* hist.fresh the entry of the call that persisted.
InitCorrupt ==
    /\ cacheFile \in { CacheOf(q) : q \in HeldSeqs }
    /\ last = NoCall
    /\ hist = [phase |-> "intact", held |-> <<>>, fresh |-> None]
    /\ coFs = NoCodeowners
    /\ coPath = ""
    /\ coOwner = Pending
    /\ pc = <<>>
    /\ loc = <<>>
    /\ cli = <<>>
    /\ query = <<>>

\* The file is damaged from outside the program.
Damage ==
    /\ hist.phase = "intact"
    /\ cacheFile' = DamagedCache(cacheFile.entries)
    /\ hist' = [hist EXCEPT !.phase = "damaged", !.held = cacheFile.entries]
    /\ UNCHANGED <<coFs, coPath, coOwner, last, pc, loc, cli, query>>

\* A call whose own write of the cache file stops half way.
ResolveWritingPart(path, start, end, env) ==
    LET out == resolve_author_on(cacheFile, NoCodeowners, env, path, start, end, "partial")
    IN  /\ hist.phase = "intact"
        /\ out.saved
        /\ cacheFile' = out.file
        /\ last' = CallRecord(path, start, end, NoCodeowners, env, cacheFile, out)
        /\ hist' = [hist EXCEPT !.phase = "damaged", !.held = cacheFile.entries]
        /\ UNCHANGED <<coFs, coPath, coOwner, pc, loc, cli, query>>

\* A call on the damaged file, and the call after the one that persisted.
ResolveDamaged(path, start, end, env) ==
    LET out == resolve_author(cacheFile, NoCodeowners, env, path, start, end)
    IN  /\ hist.phase \in { "damaged", "recovered" }
        /\ cacheFile' = out.file
        /\ last' = CallRecord(path, start, end, NoCodeowners, env, cacheFile, out)
        /\ hist' = IF hist.phase = "recovered" THEN [hist EXCEPT !.phase = "later"]
                   ELSE IF out.saved
                   THEN [hist EXCEPT !.phase = "recovered",
                                     !.fresh = Some(out.file.entries[Len(out.file.entries)])]
                   ELSE hist
        /\ UNCHANGED <<coFs, coPath, coOwner, pc, loc, cli, query>>

NextCorrupt ==
    \/ Damage
    \/ /\ hist.phase = "intact"
       /\ \E path \in Paths, r \in Ranges, env \in Envs :
              ResolveWritingPart(path, r[1], r[2], env)
    \/ /\ hist.phase \in { "damaged", "recovered" }
       /\ \E path \in Paths, r \in Ranges, env \in Envs :
              ResolveDamaged(path, r[1], r[2], env)

SpecCorrupt == InitCorrupt /\ [][NextCorrupt]_vars

\* ------------------------------------------------------------------------
\* Claims about codeowner_for_path (checked under SpecOwners)
\* ------------------------------------------------------------------------
RootOnly(c) == [dotGit |-> AbsentFile, root |-> TextFile(c)]

SpecExampleFs == RootOnly("*/service/ @team-a\nutils/ @team-b\n")
PrefixExampleFs == RootOnly("service/ @team-a\nutils @team-b\n")

\* C3 as stated: with the rules "*/service/ @team-a" then "utils/ @team-b",
\* "service/utils/file.go" resolves to "@team-b" and "service/other.go" to
\* "@team-a".
C3_SpecExample ==
    (coOwner # Pending /\ coFs = SpecExampleFs) =>
        /\ coPath = "service/utils/file.go" => coOwner = Done(Some("@team-b"))
        /\ coPath = "service/other.go" => coOwner = Done(Some("@team-a"))

\* C3 amended: with the rules "*/service/ @team-a" then "utils/ @team-b"
\* neither rule matches "service/utils/file.go" or "service/other.go" and the
\* owner is none for both; with the rules "service/ @team-a" then
\* "utils @team-b", "service/utils/file.go" is matched by both rules and
\* resolves to "@team-b", "service/other.go" is matched by the first only and
\* resolves to "@team-a".
C3_LastMatchWins ==
    /\ (coOwner # Pending /\ coFs = SpecExampleFs
            /\ coPath \in {"service/utils/file.go", "service/other.go"})
          => coOwner = Done(None)
    /\ (coOwner # Pending /\ coFs = PrefixExampleFs) =>
          /\ coPath = "service/utils/file.go" =>
                /\ codeowners_pattern_matches("service/", coPath)
                /\ codeowners_pattern_matches("utils", coPath)
                /\ coOwner = Done(Some("@team-b"))
          /\ coPath = "service/other.go" =>
                /\ codeowners_pattern_matches("service/", coPath)
                /\ ~codeowners_pattern_matches("utils", coPath)
                /\ coOwner = Done(Some("@team-a"))

C3_Witness ==
    /\ coFs = PrefixExampleFs
    /\ coPath = "service/utils/file.go"
    /\ coOwner = Done(Some("@team-b"))

\* The lines of the ownership file the query reads, and the rule lines among
\* them that apply to the path.
RuleLines == LET c == read_codeowners(coFs)
             IN  IF IsNone(c) THEN <<>> ELSE Lines(Unwrap(c))

IsRuleFor(l, path) ==
    LET t == SplitWhitespace(l)
    IN  /\ Len(t) >= 2
        /\ ~StartsWith(t[1], "#")
        /\ codeowners_pattern_matches(t[1], Replace(path, "\\", "/"))

MatchingLines == { i \in 1..Len(RuleLines) : IsRuleFor(RuleLines[i], coPath) }

\* C4: codeowner_for_path returns the first owner token of the last line, in
\* file order, that is non-blank, is no comment, has an owner token and whose
\* pattern matches the path, and none when there is no such line.
C4_LastRuleFirstOwner ==
    coOwner # Pending =>
        /\ MatchingLines = {} => coOwner = Done(None)
        /\ MatchingLines # {} =>
              LET m == CHOOSE i \in MatchingLines : \A j \in MatchingLines : j <= i
              IN  coOwner = Done(Some(SplitWhitespace(RuleLines[m])[2]))
        /\ (coFs = RootOnly("docs/ @docwriters\n") /\ coPath = "src/main.go")
              => coOwner = Done(None)

\* Two rules with different owners match the path, the later one has a second
\* owner token, and the query has answered.
C4_Witness ==
    /\ coOwner # Pending
    /\ \E i, j \in MatchingLines :
          /\ i < j
          /\ Len(SplitWhitespace(RuleLines[j])) > 2
          /\ SplitWhitespace(RuleLines[i])[2] # SplitWhitespace(RuleLines[j])[2]
          /\ coOwner = Done(Some(SplitWhitespace(RuleLines[j])[2]))

\* ------------------------------------------------------------------------
\* Claims about one resolve_author call (checked under Spec)
\* ------------------------------------------------------------------------
\* The call the caller holds the result of got as far as the cache lookup
\* with a blob OID.
LookedUp ==
    /\ last.called
    /\ last.env.opens
    /\ last.env.exists
    /\ IsSome(blob_oid_at_head(last.env))

\* The entries of the cache file as it was before the call that have the
\* call's path and range, and those among them under the call's blob OID.
RangeEntries ==
    { i \in 1..Len(last.before.entries) :
        LET e == last.before.entries[i]
        IN  e.path = last.path /\ e.start = last.start /\ e.end = last.end }

KeyEntries ==
    { i \in RangeEntries :
        last.before.entries[i].oid = Unwrap(blob_oid_at_head(last.env)) }

StoredEmail == last.before.entries[CHOOSE i \in KeyEntries : TRUE].email

C2_Idempotent ==
    [][ ( /\ last.called
          /\ last'.called
          /\ last'.path = last.path
          /\ last'.start = last.start
          /\ last'.end = last.end
          /\ last'.fs = last.fs
          /\ last'.env = last.env )
        => last'.out.author = last.out.author ]_vars

\* C6: a call whose blob OID is h returns, on a hit, the identity stored
\* under h, and when no entry is stored under h it is a miss that runs blame,
\* whatever is stored for the same path and range under other OIDs.
C6_HashScoped ==
    LookedUp =>
        /\ KeyEntries = {} =>
              /\ last.out.blamed
              /\ last.out.author.git = last.env.blame
        /\ KeyEntries # {} =>
              /\ ~last.out.blamed
              /\ last.out.author.git \in {None, Some(StoredEmail)}

\* Both directions: the store holds the range under two OIDs with different
\* identities, and the call got the one of its own OID.
C6_Witness ==
    /\ LookedUp
    /\ KeyEntries # {}
    /\ \E j \in RangeEntries \ KeyEntries :
          last.before.entries[j].email # StoredEmail
    /\ last.out.author.git = Some(StoredEmail)

\* C7: with no blob OID at HEAD the call runs blame, returns what blame
\* yields, neither reads nor writes the cache and leaves the cache file as it
\* was; its result is the same over any cache file.
C7_UntrackedNeverCached ==
    ( /\ last.called
      /\ last.env.opens
      /\ last.env.exists
      /\ IsNone(blob_oid_at_head(last.env)) )
    =>  /\ last.out.blamed
        /\ last.out.author.git = last.env.blame
        /\ last.out.loads = 0
        /\ ~last.out.saved
        /\ cacheFile = last.before
        /\ \A c \in SeedCaches :
              resolve_author(c, last.fs, last.env, last.path, last.start, last.end).author
                  = last.out.author

\* An untracked file resolved to an identity over a cache file that holds
\* entries for its path and range.
C7_Witness ==
    /\ last.called
    /\ last.env.opens
    /\ last.env.exists
    /\ IsNone(blob_oid_at_head(last.env))
    /\ RangeEntries # {}
    /\ last.out.author.git = Some("new@x.com")
    /\ cacheFile = last.before

\* C8: when the repository does not open, or the file is not on disk, the
\* call returns no git identity and the PathMatcher's codeowner, does not run
\* blame and neither reads nor writes the cache.
C8_Degrades ==
    (last.called /\ (~last.env.opens \/ ~last.env.exists)) =>
        /\ last.out.author.git = None
        /\ last.out.author.codeowner = codeowner_for_path(last.fs, last.path)
        /\ (codeowner_for_path(last.fs, last.path) = None
              => last.out.author = [git |-> None, codeowner |-> None])
        /\ ~last.out.blamed
        /\ last.out.loads = 0
        /\ ~last.out.saved
        /\ cacheFile = last.before

\* The file is missing on disk while the cache holds an entry for its path,
\* range and blob OID.
C8_Witness ==
    /\ last.called
    /\ last.env.opens
    /\ ~last.env.exists
    /\ IsSome(blob_oid_at_head(last.env))
    /\ KeyEntries # {}
    /\ last.out.author.git = None

\* C9: on every return path the codeowner returned is codeowner_for_path of
\* the call's path, and the git identity is the one the call returns when
\* there is no CODEOWNERS file at all.
C9_CodeownerIndependent ==
    last.called =>
        /\ last.out.author.codeowner = codeowner_for_path(last.fs, last.path)
        /\ resolve_author(last.before, NoCodeowners, last.env,
                          last.path, last.start, last.end).author.git
              = last.out.author.git

\* A cache hit that returns both a git identity and a codeowner.
C9_Witness ==
    /\ LookedUp
    /\ KeyEntries # {}
    /\ last.out.author.git = Some("old@x.com")
    /\ last.out.author.codeowner = Some("@docwriters")

\* ------------------------------------------------------------------------
\* Claims about the cache file under upserts (checked under SpecRace)
\* ------------------------------------------------------------------------
EntryKey(e) == <<e.path, e.start, e.end, e.oid>>

UniqueKeys(entries) ==
    \A i, j \in 1..Len(entries) :
        EntryKey(entries[i]) = EntryKey(entries[j]) => i = j

Lookup(entries, e) == FindEntry(entries, e.path, e.start, e.end, e.oid)

\* The saves that are the most recent upsert of their key.
LatestSaves ==
    { i \in 1..Len(hist.saves) :
        \A j \in (i + 1)..Len(hist.saves) :
            EntryKey(hist.saves[j].entry) # EntryKey(hist.saves[i].entry) }

\* C5: the cache file never holds two entries with one key; the entry of the
\* most recent save is what a lookup of its key finds; and as long as the
\* upserts came one after the other (no process loaded the cache for its
\* upsert while another was between its load and its save), a lookup of any
\* key finds the identity of the most recent upsert of that key.
C5_OneEntryPerKey ==
    /\ UniqueKeys(cacheFile.entries)
    /\ \A p \in Procs : UniqueKeys(loc[p].cache)
    /\ Len(hist.saves) > 0 =>
          LET e == hist.saves[Len(hist.saves)].entry
          IN  Lookup(cacheFile.entries, e) = Some(e)
    /\ ~hist.overlapped =>
          \A i \in LatestSaves :
              Lookup(cacheFile.entries, hist.saves[i].entry) = Some(hist.saves[i].entry)

\* upsert(k, a) then upsert(k, b), one after the other, the second one
\* replacing the entry of the first: one entry for k is left, holding b.
C5_Witness ==
    /\ ~hist.overlapped
    /\ \E i, j \in 1..Len(hist.saves) :
          /\ i < j
          /\ j \in LatestSaves
          /\ EntryKey(hist.saves[i].entry) = EntryKey(hist.saves[j].entry)
          /\ hist.saves[i].entry.email # hist.saves[j].entry.email
          /\ hist.saves[i].entry = Lookup(hist.saves[j].loaded, hist.saves[j].entry)[1]
          /\ Cardinality({ n \in 1..Len(cacheFile.entries) :
                 EntryKey(cacheFile.entries[n]) = EntryKey(hist.saves[j].entry) }) = 1
          /\ Lookup(cacheFile.entries, hist.saves[j].entry) = Some(hist.saves[j].entry)

\* A saved entry whose key the cache file no longer holds.
LostUpdate ==
    \E i \in 1..Len(hist.saves) :
        Lookup(cacheFile.entries, hist.saves[i].entry) = None

\* The two most recent saves are by different processes, for different keys,
\* from loads of the same store, which did not hold the first writer's key.
RacedSaves ==
    /\ Len(hist.saves) >= 2
    /\ LET a == hist.saves[Len(hist.saves) - 1]
           b == hist.saves[Len(hist.saves)]
       IN  /\ a.proc # b.proc
           /\ EntryKey(a.entry) # EntryKey(b.entry)
           /\ a.loaded = b.loaded
           /\ Lookup(a.loaded, a.entry) = None

\* C10: when two processes load the same store for upserts of different keys
\* and save one after the other, the file is the later writer's store and
\* the first writer's entry is not in it; an update is lost only to such an
\* overlap of two upserts.
C10_LostUpdate ==
    /\ RacedSaves =>
          LET a == hist.saves[Len(hist.saves) - 1]
              b == hist.saves[Len(hist.saves)]
              OtherKey(e) == EntryKey(e) # EntryKey(b.entry)
          IN  /\ cacheFile.entries = Append(SelectSeq(b.loaded, OtherKey), b.entry)
              /\ Lookup(cacheFile.entries, a.entry) = None
              /\ LostUpdate
    /\ LostUpdate => hist.overlapped

C10_Witness ==
    /\ RacedSaves
    /\ LostUpdate
    /\ \A p \in Procs : pc[p] = "idle"

\* ------------------------------------------------------------------------
\* Claims about the cache file of one call (SpecStore)
\* ------------------------------------------------------------------------
Saved == last.called /\ last.out.saved

CallKey == <<last.path, last.start, last.end, Unwrap(blob_oid_at_head(last.env))>>

\* The entries of a store under another key than the call's, in their order.
OtherKeys(entries) ==
    LET Other(e) == EntryKey(e) # CallKey
    IN  SelectSeq(entries, Other)

\* The indices of the entries of a store under the key of the call.
CallKeyEntries(entries) == { i \in 1..Len(entries) : EntryKey(entries[i]) = CallKey }

\* C11: when resolve_author upserts and the write succeeds, the entries of the
\* loaded store under any other key, other blob OIDs of the same path and
\* range included, are in the persisted store unchanged and in the same
\* order: no entry for a different key is removed.
C11_UpsertKeepsOtherKeys ==
    (Saved /\ last.disk = "ok") =>
        /\ cacheFile.kind = "entries"
        /\ OtherKeys(cacheFile.entries) = OtherKeys(load_blame_cache(last.before))
        /\ \A i \in 1..Len(last.before.entries) :
               EntryKey(last.before.entries[i]) # CallKey =>
                   \E j \in 1..Len(cacheFile.entries) :
                       cacheFile.entries[j] = last.before.entries[i]

\* A saved call on a store of two entries of other keys, one of them of the
\* same path and range under another blob OID.
C11_Witness ==
    /\ Saved
    /\ last.disk = "ok"
    /\ Len(OtherKeys(last.before.entries)) >= 2
    /\ RangeEntries # {}

\* C12: a missing, unreadable or unparsable cache file loads as the empty
\* store, and resolve_author goes on as on a miss: it runs blame, returns the
\* blamed identity and caches it when there is one.
C12_LoadNeverFails ==
    (last.called /\ last.before.kind # "entries") =>
        /\ load_blame_cache(last.before) = <<>>
        /\ LookedUp =>
              /\ last.out.blamed
              /\ last.out.hit = None
              /\ last.out.author.git = last.env.blame
              /\ last.out.saved <=> IsSome(last.env.blame)
              /\ (last.out.saved /\ last.disk = "ok") =>
                     cacheFile = CacheOf(<<BlameCacheEntry(last.path, last.start, last.end,
                                                           CallKey[4],
                                                           Unwrap(last.env.blame))>>)

\* A call that looked the key up in an unparsable file, another in an
\* unreadable one.
C12_Witness ==
    /\ LookedUp
    /\ last.before.kind \in { "corrupt", "unreadable" }
    /\ last.out.blamed
    /\ IsSome(last.out.author.git)

\* C13: whatever becomes of the write of the cache file, resolve_author
\* returns the author it returns when the write succeeds.
C13_PersistFailureInvisible ==
    last.called =>
        last.out.author =
            resolve_author(last.before, last.fs, last.env,
                           last.path, last.start, last.end).author

\* A call whose write failed and that returned a git identity.
C13_Witness ==
    /\ Saved
    /\ last.disk # "ok"
    /\ IsSome(last.out.author.git)
    /\ cacheFile \in { last.before, CorruptCache }

\* C19: resolve_author writes the cache exactly when the call missed under an
\* available blob OID and blame produced an identity; the persisted store
\* then has exactly one entry under the key of the call, holding the git
\* identity the call returned; otherwise the cache file is unchanged.
C19_WritesIffBlamedMiss ==
    last.called =>
        /\ last.out.saved <=>
               (LookedUp /\ KeyEntries = {} /\ IsSome(last.env.blame))
        /\ (last.out.saved /\ last.disk = "ok") =>
               /\ Cardinality(CallKeyEntries(cacheFile.entries)) = 1
               /\ \A i \in CallKeyEntries(cacheFile.entries) :
                      Some(cacheFile.entries[i].email) = last.out.author.git
        /\ ~last.out.saved => cacheFile = last.before

\* A miss under an available blob OID whose blame gave no identity, on a
\* store that is not empty.
C19_Witness ==
    /\ LookedUp
    /\ KeyEntries = {}
    /\ last.out.blamed
    /\ IsNone(last.env.blame)
    /\ Len(last.before.entries) >= 1
    /\ cacheFile = last.before

\* ------------------------------------------------------------------------
\* Claims about the check command (SpecCheck)
\* ------------------------------------------------------------------------
Checked ==
    /\ cli # <<>>
    /\ cli.cmd = "check"
    /\ IsSome(load_config(cli.config))
    /\ IsSome(load_reports(cli.reports))

\* The entry is open and its expires_at is a date before today.
OpenExpired(e) ==
    /\ e.status = "open"
    /\ IsSome(e.expires_at)
    /\ StrLess(Unwrap(e.expires_at), cli.today)

\* The entry is open and the config gives its tag the severity blocking.
OpenBlocking(e) ==
    /\ e.status = "open"
    /\ to_ascii_lowercase(e.tag) \in DOMAIN cli.config.tags
    /\ to_ascii_lowercase(cli.config.tags[to_ascii_lowercase(e.tag)].severity) = "blocking"

\* C14: check exits non-zero exactly when some open entry is blocking or
\* expired, whether or not the tag of the entry is a known tag or is in the
\* config.
C14_CheckFailsIffOpenViolation ==
    Checked =>
        (cli.out.exit # 0 <=>
            \E i \in 1..Len(cli.reports.entries) :
                \/ OpenBlocking(cli.reports.entries[i])
                \/ OpenExpired(cli.reports.entries[i]))

\* What cmd_check does: an open entry counts only if its tag is a known tag
\* that the config holds.
CheckFailsIffConfiguredViolation ==
    Checked =>
        (cli.out.exit # 0 <=>
            \E i \in 1..Len(cli.reports.entries) :
                LET e == cli.reports.entries[i]
                IN  /\ IsSome(Tag_from_str(e.tag))
                    /\ Unwrap(Tag_from_str(e.tag)) \in DOMAIN cli.config.tags
                    /\ OpenBlocking(e) \/ OpenExpired(e))

\* ------------------------------------------------------------------------
\* Claims about report ids (SpecReports)
\* ------------------------------------------------------------------------
\* C15: next_id is "CR-" and the six-digit number after the largest one of
\* the list, "CR-000001" for the empty list, and across add_entry,
\* delete_by_id and resolve_by_id every id issued is greater than every id
\* issued before it, so none is issued twice.
C15_IdsStrictlyIncrease ==
    /\ next_id(<<>>) = "CR-000001"
    /\ parse_report_id(next_id(cli.entries)) = Some(max_id(cli.entries) + 1)
    /\ \A i, j \in 1..Len(cli.issued) :
           i < j => Unwrap(parse_report_id(cli.issued[i])) <
                    Unwrap(parse_report_id(cli.issued[j]))

\* What holds of the ids: the id issued is greater than every id in the list
\* at that time.
IdsAboveTheList ==
    [][\A i \in 1..Len(cli.entries) :
          Len(cli'.issued) > Len(cli.issued) /\ IsSome(parse_report_id(cli.entries[i].id)) =>
              Unwrap(parse_report_id(cli.entries[i].id)) <
              Unwrap(parse_report_id(cli'.issued[Len(cli'.issued)]))]_vars

\* ------------------------------------------------------------------------
\* Claims about the add command (SpecLocation)
\* ------------------------------------------------------------------------
Added == cli # <<>> /\ cli.cmd = "add"

\* The location is written path:start-end with both numbers readable, and
\* these are the numbers.
WellFormed ==
    /\ Trim(cli.pieces[1]) # ""
    /\ cli.pieces[2] = ":"
    /\ cli.pieces[4] # ""
    /\ IsSome(parse_u32(Trim(cli.pieces[3])))
    /\ IsSome(parse_u32(Trim(cli.pieces[5])))

WrittenStart == Unwrap(parse_u32(Trim(cli.pieces[3])))
WrittenEnd == Unwrap(parse_u32(Trim(cli.pieces[5])))

\* C16: parse_location rejects a location whose start is 0 or whose end is
\* below its start, and cmd_add calls resolve_author only with what
\* parse_location accepted, so every call has start >= 1 and end >= start.
C16_RangeEnforcedBeforeCore ==
    Added =>
        /\ (WellFormed /\ (WrittenStart = 0 \/ WrittenEnd < WrittenStart)) =>
               /\ IsNone(parse_location(cli.location))
               /\ ~cli.called
               /\ cli.exit = 1
        /\ (WellFormed /\ WrittenStart >= 1 /\ WrittenEnd >= WrittenStart) =>
               /\ IsSome(parse_location(cli.location))
               /\ Unwrap(parse_location(cli.location)).start = WrittenStart
               /\ Unwrap(parse_location(cli.location)).end = WrittenEnd
        /\ cli.called <=> last.called
        /\ last.called =>
               /\ parse_location(cli.location) =
                      Some([path |-> last.path, start |-> last.start, end |-> last.end])
               /\ last.start >= 1
               /\ last.end >= last.start

\* An add that called resolve_author for a range of two lines and saved the
\* report.
C16_Witness ==
    /\ Added
    /\ last.called
    /\ last.start = 1
    /\ last.end = 2
    /\ last.path = "src/main.go"
    /\ cli.exit = 0
    /\ Len(cli.reports.entries) = 2

\* ------------------------------------------------------------------------
\* Claims about codeowners_pattern_matches (SpecPattern)
\* ------------------------------------------------------------------------
\* The number of leading slashes of a string.
LeadingSlashes(s) ==
    CHOOSE k \in 0..Len(s) :
        /\ \A i \in 1..k : SubSeq(s, i, i) = "/"
        /\ k < Len(s) => SubSeq(s, k + 1, k + 1) # "/"

TrailingSlashes(s) ==
    CHOOSE k \in 0..Len(s) :
        /\ \A i \in (Len(s) - k + 1)..Len(s) : SubSeq(s, i, i) = "/"
        /\ k < Len(s) => SubSeq(s, Len(s) - k, Len(s) - k) # "/"

\* The pattern and the path of the query without their leading slashes.
QPattern == SubSeq(query.pattern, LeadingSlashes(query.pattern) + 1, Len(query.pattern))
QPath == SubSeq(query.path, LeadingSlashes(query.path) + 1, Len(query.path))

\* p is in s from position i on.
OccursAt(s, p, i) ==
    /\ i >= 1
    /\ i + Len(p) - 1 <= Len(s)
    /\ \A k \in 1..Len(p) : SubSeq(s, i + k - 1, i + k - 1) = SubSeq(p, k, k)

\* The places of the path where "/" and then the pattern is.
SlashOccurrences ==
    { i \in 1..Len(QPath) : OccursAt(QPath, "/", i) /\ OccursAt(QPath, QPattern, i + 1) }

\* The pattern can match by the containment rule alone: it is no directory
\* pattern, and is neither "*" nor the path nor a prefix nor a suffix of it.
OnlyContainment ==
    /\ query # <<>>
    /\ QPattern # ""
    /\ QPattern # "*"
    /\ QPattern # QPath
    /\ ~OccursAt(QPattern, "/", Len(QPattern))
    /\ ~OccursAt(QPath, QPattern, 1)
    /\ ~OccursAt(QPath, QPattern, Len(QPath) - Len(QPattern) + 1)

\* C17 as stated: a match by the containment rule alone has the pattern as a
\* full segment of the path, the occurrence being followed by "/" or by the
\* end of the path, and "ut" does not match "a/utils/x".
C17_ContainmentIsFullSegment ==
    /\ (OnlyContainment /\ query.matches) =>
           \E i \in SlashOccurrences :
               \/ i + Len(QPattern) = Len(QPath)
               \/ OccursAt(QPath, "/", i + Len(QPattern) + 1)
    /\ (query # <<>> /\ query.pattern = "ut" /\ query.path = "a/utils/x") => ~query.matches

\* C17: a pattern that can match by the containment rule alone matches
\* exactly when it occurs in the path right after a "/", whatever follows the
\* occurrence: the pattern starts a segment and need not end one.
C17_ContainmentStartsSegment ==
    /\ OnlyContainment => (query.matches <=> SlashOccurrences # {})
    /\ (query # <<>> /\ query.pattern = "ut" /\ query.path = "a/utils/x") => query.matches

\* "ut" matching "a/utils/x", where it is only the beginning of a segment.
C17_Witness ==
    /\ OnlyContainment
    /\ query.pattern = "ut"
    /\ query.path = "a/utils/x"
    /\ query.matches
    /\ SlashOccurrences = { 2 }

\* The reference rule, on the pattern without its leading slashes.
RefMatches ==
    IF QPattern = "" THEN FALSE
    ELSE IF QPattern = "*" \/ QPattern = query.path THEN TRUE
    ELSE IF OccursAt(QPattern, "/", Len(QPattern))
    THEN \/ OccursAt(query.path, QPattern, 1)
         \/ OccursAt(query.path,
                     SubSeq(QPattern, 1, Len(QPattern) - TrailingSlashes(QPattern)), 1)
    ELSE \/ OccursAt(query.path, QPattern, 1)
         \/ OccursAt(query.path, QPattern, Len(query.path) - Len(QPattern) + 1)
         \/ \E i \in 1..Len(query.path) :
                OccursAt(query.path, "/", i) /\ OccursAt(query.path, QPattern, i + 1)

\* C18: on a path without leading slash codeowners_pattern_matches is the
\* reference rule: leading slashes of the pattern dropped, the empty pattern
\* matching nothing, "*" and the path itself matching, a pattern ending in "/"
\* matching by prefix with or without its trailing slashes and by nothing
\* else, any other pattern by prefix, suffix or "/" and the pattern inside.
C18_MatchesReference ==
    (query # <<>> /\ LeadingSlashes(query.path) = 0) => (query.matches <=> RefMatches)

\* A directory pattern matching by its name without the slash, and one that
\* is a suffix of the path and does not match.
C18_Witness ==
    /\ query # <<>>
    /\ query.pattern = "/a/"
    /\ query.path \in { "ab", "ba/" }
    /\ query.matches <=> query.path = "ab"

\* ------------------------------------------------------------------------
\* Claims about blame (SpecBlame)
\* ------------------------------------------------------------------------
\* The call ran blame: it missed the cache or had no blob OID.
Blamed == last.called /\ last.out.blamed

\* The one line the identity is read from.
IdentityLine == IF last.start >= 1 THEN last.start ELSE 1

\* C20: a call that runs blame asks for the window [start, max(end, start)]
\* and takes the identity of line max(start, 1) and of no other line; when the
\* engine fails, the line is past the end of the file or its hunk has no
\* email, the git identity is none.
C20_FirstLineOfWindow ==
    Blamed =>
        /\ query.opts.min_line = last.start
        /\ query.opts.max_line >= last.start
        /\ query.opts.max_line >= last.end
        /\ query.opts.max_line \in { last.start, last.end }
        /\ last.out.author.git =
               IF query.file.engineOk /\ IdentityLine <= Len(query.file.sigs)
               THEN query.file.sigs[IdentityLine]
               ELSE None

\* A blamed call on a range of two lines of different authors, which returns
\* the author of the first.
C20_Witness ==
    /\ Blamed
    /\ last.start = 2
    /\ last.end = 3
    /\ query.file.engineOk
    /\ query.file.sigs = <<None, Some("old@x.com"), Some("new@x.com")>>
    /\ last.out.author.git = Some("old@x.com")

\* The failures of blame: each gives the identity none.
BlameFailuresGiveNone ==
    (Blamed /\ \/ ~query.file.engineOk
               \/ IdentityLine > Len(query.file.sigs)
               \/ query.file.sigs[IdentityLine] = None)
        => last.out.author.git = None

\* ------------------------------------------------------------------------
\* Claims about the place of the ownership file (SpecOwners)
\* ------------------------------------------------------------------------
\* The owner that the rules of a text give to the path of the query.
OwnerByContent(c) == codeowner_loop(Lines(c), 1, Replace(coPath, "\\", "/"), None)

\* The owner that one candidate file gives: none when it cannot be read.
OwnerByFile(f) == IF f.readable THEN OwnerByContent(f.content) ELSE None

\* C21: the ownership file is .git/CODEOWNERS when that exists, whatever is
\* at the root and even when it cannot be read (no match then); else it is
\* CODEOWNERS at the root when that exists; with neither there is no match.
C21_FirstExistingWins ==
    coOwner # Pending =>
        /\ coFs.dotGit.exists => coOwner = Done(OwnerByFile(coFs.dotGit))
        /\ (coFs.dotGit.exists /\ ~coFs.dotGit.readable) => coOwner = Done(None)
        /\ (~coFs.dotGit.exists /\ coFs.root.exists) => coOwner = Done(OwnerByFile(coFs.root))
        /\ (~coFs.dotGit.exists /\ ~coFs.root.exists) => coOwner = Done(None)

\* An unreadable .git/CODEOWNERS over a root file that has an owner for the
\* path: no match.
C21_Witness ==
    /\ coOwner = Done(None)
    /\ coFs.dotGit = UnreadableFile
    /\ coFs.root.exists
    /\ IsSome(OwnerByFile(coFs.root))

\* Both files exist and give different answers: the one in .git is taken.
BothExistDotGitWins ==
    (/\ coOwner # Pending
     /\ coFs.dotGit.exists /\ coFs.dotGit.readable
     /\ coFs.root.exists /\ coFs.root.readable
     /\ OwnerByFile(coFs.dotGit) # OwnerByFile(coFs.root))
        => coOwner = Done(OwnerByFile(coFs.dotGit))

\* ------------------------------------------------------------------------
\* Claims about a damaged cache file (SpecCorrupt)
\* ------------------------------------------------------------------------
HeldKeys == { EntryKey(hist.held[i]) : i \in 1..Len(hist.held) }

====
